---- MODULE Spec2Model ----
(***************************************************************************)
(* Model of the Home Assistant companion gateway (HomeAssistantAPI) and of *)
(* the device application (app/index.js) that displays the entities.       *)
(*                                                                         *)
(* Entity ids are sequences of one-character strings, so that              *)
(* entity.split(".")[0] and entity.startsWith(prefix) are computed as the  *)
(* code computes them.  An omitted (undefined) argument is the empty       *)
(* sequence, a given argument v is <<v>>.  A JavaScript object is a record *)
(* whose domain holds exactly the properties that are defined.             *)
(***************************************************************************)
EXTENDS Integers, Sequences, FiniteSets, TLC

VARIABLES
    url, port, token, force,  \* HomeAssistantAPI: this.url, this.port, this.token, this.force
    inflight,                 \* gateway calls suspended at `await fetch(...)`, in order of issue
    last,                     \* the gateway call that returned most recently, with what it did
    channel,                  \* the peer socket from the gateway to the device
    Available,                \* app: connectivity flag
    AddressText,              \* app: AddressText.text
    settings,                 \* app: the settings object
    Categories,               \* app: Categories array
    Entities,                 \* app: Entities array
    tiles,                    \* app: text of itemCategory on each tile of EntityList
    handled,                  \* app: the event handled most recently, with what the handler did
    sent                      \* app: messages handed to sendData by the latest handler

gwVars == <<url, port, token, force, inflight, last>>
appVars == <<Available, AddressText, settings, Categories, Entities, tiles, handled, sent>>
vars == <<url, port, token, force, inflight, last, channel,
          Available, AddressText, settings, Categories, Entities, tiles, handled, sent>>

-----------------------------------------------------------------------------
(* Bounds *)

\* gateway calls that may be suspended at the same time
MaxInflight == 1
\* entries in the list a service call answers with
MaxResp == 2
\* records the Entities array may hold
MaxEntities == 3
\* elements the Categories array may hold
MaxCategories == 5
\* messages the peer socket may hold undelivered
MaxChannel == 2

-----------------------------------------------------------------------------
(* Strings *)

Undefined == <<>>

Seqs(S, n) == UNION {[1..k -> S] : k \in 0..n}

RECURSIVE indexOfFrom(_, _, _)
indexOfFrom(s, ch, i) ==
    IF i > Len(s) THEN 0
    ELSE IF s[i] = ch THEN i
    ELSE indexOfFrom(s, ch, i + 1)

\* s.split(".")[0]
split0(s) ==
    LET k == indexOfFrom(s, ".", 1)
    IN  IF k = 0 THEN s ELSE SubSeq(s, 1, k - 1)

\* s.startsWith(p)
startsWith(s, p) == Len(s) >= Len(p) /\ SubSeq(s, 1, Len(p)) = p

STR_switch == <<"s", "w", "i", "t", "c", "h">>
STR_light == <<"l", "i", "g", "h", "t">>
STR_group == <<"g", "r", "o", "u", "p">>
STR_script == <<"s", "c", "r", "i", "p", "t">>
STR_automation == <<"a", "u", "t", "o", "m", "a", "t", "i", "o", "n">>
STR_button == <<"b", "u", "t", "t", "o", "n">>
STR_cover == <<"c", "o", "v", "e", "r">>

\* "<domain>.<object id>"
Id(domain, obj) == domain \o <<".">> \o obj

SwitchLamp == Id(STR_switch, <<"l">>)
CoverBlinds == Id(STR_cover, <<"b">>)
ScriptFoo == Id(STR_script, <<"f">>)
AutomationNight == Id(STR_automation, <<"n">>)
ButtonBell == Id(STR_button, <<"b">>)
\* an id of another domain whose name begins with "script"
ScriptsBar == Id(STR_script \o <<"s">>, <<"b">>)
LightA == Id(STR_light, <<"a">>)
LightB == Id(STR_light, <<"b">>)
SwitchC == Id(STR_switch, <<"c">>)

-----------------------------------------------------------------------------
(* Imported helpers *)

\* i18n gettext(key): the translation of key
gettext(key) == "i18n:" \o key

\* JSON.stringify(obj): a string, which has no properties of its own
JSONstringify(obj) == [string |-> obj]

\* common/utils sendData(data): hands data to the peer socket; out is the
\* sequence of messages handed over so far
sendData(out, data) == Append(out, data)

\* common/utils isEmpty(data)
isEmpty(data) == Len(data) = 0

-----------------------------------------------------------------------------
(* HomeAssistantAPI: tables *)

\* obj[key]: <<value>> when obj has the property, Undefined otherwise
get(obj, key) == IF key \in DOMAIN obj THEN <<obj[key]>> ELSE Undefined

\* a || b, for a an optional non-empty string
orElse(a, b) == IF a # Undefined THEN a[1] ELSE b

\* `${a}` for a an optional string
template(a) == IF a # Undefined THEN a[1] ELSE "undefined"

Groups ==
    (STR_switch :> "switch") @@ (STR_light :> "light") @@
    (STR_group :> "homeassistant") @@ (STR_script :> "script") @@
    (STR_automation :> "automation") @@ (STR_button :> "button") @@
    (STR_cover :> "cover")

NextStateOverrides ==
    (STR_script :> "turn_on") @@ (STR_automation :> "trigger") @@
    (STR_button :> "press")

ForcedStates ==
    ("turn_on" :> "on") @@ ("turn_off" :> "off") @@
    ("close_cover" :> "closed") @@ ("open_cover" :> "open")

-----------------------------------------------------------------------------
(* HomeAssistantAPI: configuration *)

\* isValid without the test of the token
isValidNoToken == url # "" /\ port # ""

isValid == url # "" /\ port # "" /\ token # ""

urlAfter(u) == IF u # Undefined THEN u[1] ELSE "127.0.0.1"

portAfter(p) == IF p # Undefined THEN p[1] ELSE "8123"

tokenAfter(t) == IF t # Undefined THEN t[1] ELSE ""

\* changeForce(undefined) leaving the flag as it is
forceAfterKeep(f) == IF f # Undefined THEN f[1] ELSE force

forceAfter(f) == IF f # Undefined THEN f[1] ELSE TRUE

\* the configuration as one value
Config == [url |-> url, port |-> port, token |-> token, force |-> force]

\* the record of a call that returned without suspending; cfg is the
\* configuration it found
Returned(op, args) ==
    [op |-> op, args |-> args, cfg |-> Config, requests |-> <<>>, emitted |-> <<>>]

changeUrl(u) ==
    /\ url' = urlAfter(u)
    /\ last' = Returned("changeUrl", [url |-> u])
    /\ UNCHANGED <<port, token, force, inflight, channel>>
    /\ UNCHANGED appVars

changePort(p) ==
    /\ port' = portAfter(p)
    /\ last' = Returned("changePort", [port |-> p])
    /\ UNCHANGED <<url, token, force, inflight, channel>>
    /\ UNCHANGED appVars

changeToken(t) ==
    /\ token' = tokenAfter(t)
    /\ last' = Returned("changeToken", [token |-> t])
    /\ UNCHANGED <<url, port, force, inflight, channel>>
    /\ UNCHANGED appVars

changeForce(f) ==
    /\ force' = forceAfter(f)
    /\ last' = Returned("changeForce", [force |-> f])
    /\ UNCHANGED <<url, port, token, inflight, channel>>
    /\ UNCHANGED appVars

setup(u, p, t, f) ==
    /\ url' = urlAfter(u)
    /\ port' = portAfter(p)
    /\ token' = tokenAfter(t)
    /\ force' = forceAfter(f)
    /\ last' = [op |-> "setup", args |-> [url |-> u, port |-> p, token |-> t, force |-> f],
                requests |-> <<>>, emitted |-> <<>>]
    /\ UNCHANGED <<inflight, channel>>
    /\ UNCHANGED appVars

address == url \o ":" \o port

-----------------------------------------------------------------------------
(* HomeAssistantAPI: remote calls *)

headers == [Authorization |-> "Bearer " \o token, contentType |-> "application/json"]

\* response.ok
ok(response) == response.status \in 200..299

\* a call that is suspended at its fetch: the request it issued, the
\* locals it resumes with, and the configuration it found (cfg)
Suspended(op, args, locals, request) ==
    [op |-> op, args |-> args, cfg |-> Config, locals |-> locals, request |-> request]

\* a call that resumed and returned: requests and emitted are what it
\* issued and sent, issued is the configuration it found when it entered
\* and cfg the one it resumed under
Completed(call, requests, response, emitted) ==
    [op |-> call.op, args |-> call.args, issued |-> call.cfg, cfg |-> Config,
     requests |-> requests, response |-> response, emitted |-> emitted]

NoCall == [op |-> "none", requests |-> <<>>, emitted |-> <<>>]

Remove(s, i) == SubSeq(s, 1, i - 1) \o SubSeq(s, i + 1, Len(s))

\* a call enters: without a valid configuration it returns having done
\* nothing, otherwise it issues request and suspends
Enter(op, args, locals, request) ==
    /\ IF isValid
       THEN /\ Len(inflight) < MaxInflight
            /\ inflight' = Append(inflight, Suspended(op, args, locals, request))
            /\ last' = NoCall
       ELSE /\ last' = Returned(op, args)
            /\ UNCHANGED inflight
    /\ UNCHANGED channel

\* the peer socket: open tells whether a device is connected, queue holds
\* the messages on their way to it, each with the call and the response it
\* stems from, and delivered is the one the device received last
Socket(open) ==
    [open |-> open, queue |-> <<>>,
     delivered |-> [data |-> [key |-> "none"], from |-> [op |-> "none"]]]

\* the socket after the call that got response has handed emitted to
\* sendData: an open socket takes the messages in order, without a device
\* they are dropped
peerSocketSend(socket, emitted, call, response) ==
    IF socket.open
    THEN [socket EXCEPT !.queue = @ \o [k \in 1..Len(emitted) |->
                                           [data |-> emitted[k],
                                            from |-> [op |-> call.op,
                                                      response |-> response]]]]
    ELSE socket

\* the call suspended at position i resumes with response and returns
Resume(i, emitted, response) ==
    /\ channel.open => Len(channel.queue) + Len(emitted) <= MaxChannel
    /\ inflight' = Remove(inflight, i)
    /\ last' = Completed(inflight[i], <<inflight[i].request>>, response, emitted)
    /\ channel' = peerSocketSend(channel, emitted, inflight[i], response)

\* isExecutable without the test for buttons
isExecutableNoButton(entity) ==
    IF /\ ~startsWith(entity, STR_script)
       /\ ~startsWith(entity, STR_automation)
    THEN FALSE
    ELSE TRUE

isExecutable(entity) ==
    IF /\ ~startsWith(entity, STR_script)
       /\ ~startsWith(entity, STR_automation)
       /\ ~startsWith(entity, STR_button)
    THEN FALSE
    ELSE TRUE

fetchEntity(entity) ==
    /\ Enter("fetchEntity", [entity |-> entity], [entity |-> entity],
             [method |-> "GET",
              url |-> [address |-> address, api |-> "states", entity |-> entity],
              headers |-> headers])
    /\ UNCHANGED <<url, port, token, force>>
    /\ UNCHANGED appVars

\* msgData of fetchEntity
addMessage(data) ==
    [key |-> "add",
     id |-> data.entity_id,
     name |-> IF /\ "attributes" \in DOMAIN data
                 /\ "friendly_name" \in DOMAIN data.attributes
              THEN data.attributes.friendly_name
              ELSE data.entity_id,
     state |-> IF isExecutable(data.entity_id) THEN "exe" ELSE data.state,
     type |-> split0(data.entity_id)]

\* fetchEntity reporting a status outside 2xx to the device
fetchEntitySendsError(response) ==
    IF response.kind = "error" THEN <<>>
    ELSE IF ok(response)
    THEN IF ~response.body.json THEN <<>>
         ELSE sendData(<<>>, addMessage(response.body.data))
    ELSE sendData(<<>>, [key |-> "api",
                         value |-> gettext("error") \o " " \o ToString(response.status)])

\* what fetchEntity sends once its fetch has settled
fetchEntitySends(response) ==
    IF response.kind = "error" THEN <<>>
    ELSE IF ok(response)
    THEN IF ~response.body.json THEN <<>>
         ELSE sendData(<<>>, addMessage(response.body.data))
    ELSE <<>>

fetchEntityResume(i, response) ==
    /\ i \in 1..Len(inflight)
    /\ inflight[i].op = "fetchEntity"
    /\ Resume(i, fetchEntitySends(response), response)
    /\ UNCHANGED <<url, port, token, force>>
    /\ UNCHANGED appVars

fetchApiStatus ==
    /\ Enter("fetchApiStatus", <<>>, <<>>,
             [method |-> "GET",
              url |-> [address |-> address, api |-> "config"],
              headers |-> headers])
    /\ UNCHANGED <<url, port, token, force>>
    /\ UNCHANGED appVars

\* what fetchApiStatus sends once its fetch has settled
fetchApiStatusSends(response) ==
    IF response.kind = "error" \/ ~response.body.json
    THEN sendData(<<>>, [key |-> "api", value |-> gettext("connection_error")])
    ELSE LET data == response.body.data
         IN  IF response.status = 200
             THEN sendData(<<>>,
                      IF "location_name" \in DOMAIN data
                      THEN [key |-> "api", value |-> "ok", name |-> data.location_name]
                      ELSE [key |-> "api", value |-> "ok"])
             ELSE sendData(<<>>,
                      JSONstringify(
                          [key |-> "api",
                           value |-> gettext("error") \o " " \o ToString(response.status)]))

fetchApiStatusResume(i, response) ==
    /\ i \in 1..Len(inflight)
    /\ inflight[i].op = "fetchApiStatus"
    /\ Resume(i, fetchApiStatusSends(response), response)
    /\ UNCHANGED <<url, port, token, force>>
    /\ UNCHANGED appVars

\* changeEntity sending the action it was asked for
sentStateAsAsked(entity, state) == state

\* the action changeEntity puts in the command url
sentState(entity, state) == orElse(get(NextStateOverrides, split0(entity)), state)

changeEntity(entity, state) ==
    /\ Enter("changeEntity", [entity |-> entity, state |-> state],
             [entity |-> entity, state |-> sentState(entity, state)],
             [method |-> "POST",
              url |-> [address |-> address, api |-> "services",
                       group |-> template(get(Groups, split0(entity))),
                       state |-> sentState(entity, state)],
              body |-> JSONstringify([entity_id |-> entity]),
              headers |-> headers])
    /\ UNCHANGED <<url, port, token, force>>
    /\ UNCHANGED appVars

\* force mode without the Forced-State table
forcedChangeOfAction(entity, state) == [key |-> "change", id |-> entity, state |-> state]

\* the "change" message of force mode
forcedChange(entity, state) ==
    [key |-> "change", id |-> entity,
     state |-> orElse(get(ForcedStates, state), state)]

\* read-back mode without the comparison of entity_id with entity
readBackEveryEntry(entity, data) ==
    LET hits == SelectSeq(data, LAMBDA element : ~isExecutable(element.entity_id))
    IN  [k \in 1..Len(hits) |->
            [key |-> "change", id |-> hits[k].entity_id, state |-> hits[k].state]]

\* the messages of read-back mode: data.forEach(...)
readBack(entity, data) ==
    LET hits == SelectSeq(data, LAMBDA element :
                    /\ element.entity_id = entity
                    /\ ~isExecutable(element.entity_id))
    IN  [k \in 1..Len(hits) |->
            [key |-> "change", id |-> hits[k].entity_id, state |-> hits[k].state]]

\* what changeEntity sends once its fetch has settled; entity and state are
\* the locals of the call, state being the action that was sent
changeEntitySends(entity, state, response) ==
    IF response.kind = "error" THEN <<>>
    ELSE IF ok(response)
    THEN IF ~response.body.json THEN <<>>
         ELSE LET data == response.body.data
              IN  IF force
                  THEN IF ~isExecutable(entity)
                       THEN sendData(<<>>, forcedChange(entity, state))
                       ELSE <<>>
                  ELSE IF ~isEmpty(data)
                  THEN readBack(entity, data)
                  ELSE <<>>
    ELSE <<>>

\* changeEntity choosing its result policy by the force flag it found when
\* it entered
changeEntityResumeForceAtRequest(i, response) ==
    /\ i \in 1..Len(inflight)
    /\ inflight[i].op = "changeEntity"
    /\ LET entity == inflight[i].locals.entity
           state == inflight[i].locals.state
           sends == IF response.kind = "error" THEN <<>>
                    ELSE IF ~ok(response) \/ ~response.body.json THEN <<>>
                    ELSE IF inflight[i].cfg.force
                    THEN IF ~isExecutable(entity)
                         THEN sendData(<<>>, forcedChange(entity, state))
                         ELSE <<>>
                    ELSE IF ~isEmpty(response.body.data)
                    THEN readBack(entity, response.body.data)
                    ELSE <<>>
       IN  Resume(i, sends, response)
    /\ UNCHANGED <<url, port, token, force>>
    /\ UNCHANGED appVars

changeEntityResume(i, response) ==
    /\ i \in 1..Len(inflight)
    /\ inflight[i].op = "changeEntity"
    /\ Resume(i, changeEntitySends(inflight[i].locals.entity,
                                   inflight[i].locals.state, response), response)
    /\ UNCHANGED <<url, port, token, force>>
    /\ UNCHANGED appVars

-----------------------------------------------------------------------------
(* app/index.js *)

\* the object loadSettings returns when the settings file cannot be read
defaultSettings == [url |-> "localhost", port |-> "8123", token |-> "", force |-> TRUE]

\* settings objects a settings file may hold: what an earlier run saved
savedSettings ==
    {[url |-> "http://ha.local", port |-> "8123", token |-> "tok", force |-> TRUE,
      entities |-> es] : es \in {<<>>, <<[name |-> LightA]>>}}

loadSettings == {defaultSettings} \cup savedSettings

\* evt.data.key: a string message has no key
keyOf(data) == IF "key" \in DOMAIN data THEN data.key ELSE "undefined"

\* an element of Categories: a category name pushed by configureTile, or
\* the object pushed by the "add" branch of onmessage
categoryName(category) == [str |-> category]
categoryObject(id) == [obj |-> [id |-> id]]

\* the scan of configureTile: Categories[i] === info.category for some i
categoryExists(cats, category) ==
    \E i \in 1..Len(cats) : cats[i] = categoryName(category)

\* the text of itemCategory on a tile nothing has been written to
Blank == <<>>

\* the platform configures the tiles of rows i..data.length in order:
\* getTileInfo and configureTile of the delegate that setupList installs
RECURSIVE configureTiles(_, _, _, _)
configureTiles(data, i, cats, labels) ==
    IF i > Len(data) THEN [Categories |-> cats, tiles |-> labels]
    ELSE LET category == split0(data[i].id)
         IN  IF ~categoryExists(cats, category)
             THEN configureTiles(data, i + 1, Append(cats, categoryName(category)),
                                 [labels EXCEPT ![i] = category])
             ELSE configureTiles(data, i + 1, cats, labels)

\* setupList(EntityList, data): the list takes data.length rows; a row's
\* tile keeps the text it had when the platform reuses it (reuse) and is
\* blank when the platform hands out a new one
setupList(data, cats, labels, reuse) ==
    configureTiles(data, 1, cats,
        [i \in 1..Len(data) |->
            IF reuse /\ i <= Len(labels) THEN labels[i] ELSE Blank])

\* setupList called n times over, as the "change" branch does
RECURSIVE setupListTimes(_, _, _, _, _)
setupListTimes(n, data, cats, labels, reuse) ==
    IF n = 0 THEN [Categories |-> cats, tiles |-> labels]
    ELSE LET r == setupList(data, cats, labels, reuse)
         IN  setupListTimes(n - 1, data, r.Categories, r.tiles, reuse)

\* the record of a run of a callback: renders counts its setupList calls,
\* threw tells whether it ended in an uncaught exception
Handled(callback, data, renders, threw) ==
    [callback |-> callback, key |-> keyOf(data), renders |-> renders, threw |-> threw]

\* the "clear" branch without the reset of settings.entities
onmessageClearEntitiesOnly(data) ==
    /\ Entities' = <<>>
    /\ handled' = Handled("onmessage", data, 0, FALSE)
    /\ sent' = <<>>
    /\ UNCHANGED <<Available, AddressText, settings, Categories, tiles>>

onmessageClear(data) ==
    /\ Entities' = <<>>
    /\ settings' = [k \in DOMAIN settings \cup {"entities"} |->
                        IF k = "entities" THEN <<>> ELSE settings[k]]
    /\ handled' = Handled("onmessage", data, 0, FALSE)
    /\ sent' = <<>>
    /\ UNCHANGED <<Available, AddressText, Categories, tiles>>

\* Entities.push({ id: evt.data.id, name: evt.data.name, state: evt.data.state })
pushEntity(entities, data) ==
    Append(entities, [id |-> data.id, name |-> data.name, state |-> data.state])

onmessageAdd(data, reuse) ==
    LET pushed == pushEntity(Entities, data)
    IN  /\ Len(Entities) < MaxEntities
        /\ Len(Categories) + 2 <= MaxCategories
        /\ Entities' = pushed
        /\ sent' = <<>>
        /\ UNCHANGED <<Available, AddressText>>
        /\ IF "entities" \in DOMAIN settings
           THEN LET r == setupList(pushed, Categories, tiles, reuse)
                IN  /\ settings' = [settings EXCEPT
                                        !.entities = Append(@, [name |-> data.id])]
                    /\ Categories' = Append(r.Categories, categoryObject(data.id))
                    /\ tiles' = r.tiles
                    /\ handled' = Handled("onmessage", data, 1, FALSE)
           ELSE \* settings.entities is undefined: push throws a TypeError
                /\ handled' = Handled("onmessage", data, 0, TRUE)
                /\ UNCHANGED <<settings, Categories, tiles>>

\* Entities after the forEach of the "change" branch
changeEntities(entities, data) ==
    [i \in 1..Len(entities) |->
        IF entities[i].id = data.id
        THEN [entities[i] EXCEPT !.state = data.state]
        ELSE entities[i]]

\* the "change" branch comparing categories where the code compares ids
onmessageChangeByCategory(data, reuse) ==
    LET hit(entity) == split0(entity.id) = split0(data.id)
        n == Cardinality({i \in 1..Len(Entities) : hit(Entities[i])})
        changed == [i \in 1..Len(Entities) |->
                       IF hit(Entities[i])
                       THEN [Entities[i] EXCEPT !.state = data.state]
                       ELSE Entities[i]]
        r == setupListTimes(n, changed, Categories, tiles, reuse)
    IN  /\ Entities' = changed
        /\ Categories' = r.Categories
        /\ tiles' = r.tiles
        /\ handled' = Handled("onmessage", data, n, FALSE)
        /\ sent' = <<>>
        /\ UNCHANGED <<Available, AddressText, settings>>

onmessageChange(data, reuse) ==
    LET n == Cardinality({i \in 1..Len(Entities) : Entities[i].id = data.id})
        changed == changeEntities(Entities, data)
        r == setupListTimes(n, changed, Categories, tiles, reuse)
    IN  /\ Entities' = changed
        /\ Categories' = r.Categories
        /\ tiles' = r.tiles
        /\ handled' = Handled("onmessage", data, n, FALSE)
        /\ sent' = <<>>
        /\ UNCHANGED <<Available, AddressText, settings>>

onmessageApi(data) ==
    /\ IF data.value = "ok"
       THEN /\ Available' = TRUE
            /\ AddressText' = template(get(data, "name"))
       ELSE /\ Available' = FALSE
            /\ AddressText' = data.value
    /\ handled' = Handled("onmessage", data, 0, FALSE)
    /\ sent' = <<>>
    /\ UNCHANGED <<settings, Categories, Entities, tiles>>

\* the branches "url", "port", "token" and "force": store and echo
onmessageSetting(data) ==
    /\ settings' = [k \in DOMAIN settings |->
                        IF k = data.key THEN data.value ELSE settings[k]]
    /\ sent' = sendData(<<>>, [key |-> data.key, value |-> data.value])
    /\ handled' = Handled("onmessage", data, 0, FALSE)
    /\ UNCHANGED <<Available, AddressText, Categories, Entities, tiles>>

\* messaging.peerSocket.onmessage = (evt) => ..., data being evt.data;
\* reuse is the platform's choice of tiles for this run's renders
onmessage(data, reuse) ==
    /\ IF keyOf(data) = "clear" THEN onmessageClear(data)
       ELSE IF keyOf(data) = "add" THEN onmessageAdd(data, reuse)
       ELSE IF keyOf(data) = "change" THEN onmessageChange(data, reuse)
       ELSE IF keyOf(data) = "api" THEN onmessageApi(data)
       ELSE IF keyOf(data) \in {"url", "port", "token", "force"}
       THEN onmessageSetting(data)
       ELSE /\ handled' = Handled("onmessage", data, 0, FALSE)
            /\ sent' = <<>>
            /\ UNCHANGED <<Available, AddressText, settings, Categories, Entities, tiles>>
    /\ UNCHANGED gwVars

\* an event reaches the device from a companion that is not modelled
receive(data, reuse) ==
    /\ onmessage(data, reuse)
    /\ UNCHANGED channel

\* the peer socket delivers the message at the head of its queue: the
\* device's onmessage runs on it
peerSocketDeliver(reuse) ==
    /\ channel.open
    /\ channel.queue # <<>>
    /\ onmessage(Head(channel.queue).data, reuse)
    /\ channel' = [channel EXCEPT !.queue = Tail(@), !.delivered = Head(channel.queue)]

\* messaging.peerSocket.onopen
onopen ==
    /\ sent' = <<[key |-> "url", value |-> settings.url],
                 [key |-> "port", value |-> settings.port],
                 [key |-> "token", value |-> settings.token],
                 IF "entities" \in DOMAIN settings
                 THEN [key |-> "entities", value |-> settings.entities]
                 ELSE [key |-> "entities"],
                 [key |-> "force", value |-> settings.force]>>
    /\ handled' = [callback |-> "onopen", key |-> "undefined", renders |-> 0,
                   threw |-> FALSE]
    /\ UNCHANGED <<Available, AddressText, settings, Categories, Entities, tiles>>
    /\ UNCHANGED gwVars
    /\ UNCHANGED channel

-----------------------------------------------------------------------------
(* Responses of the server *)

\* fetch rejects: no connection
NetworkError == [kind |-> "error"]

\* fetch resolves with a status and a body
Http(status, body) == [kind |-> "http", status |-> status, body |-> body]

\* a body response.json() rejects, and one it resolves to data
NotJson == [json |-> FALSE]
Json(data) == [json |-> TRUE, data |-> data]

\* the body of an error page
ErrorBody == [message |-> "error"]

\* the answers to a request, success answering with one of bodies
Responses(okStatuses, errStatuses, bodies) ==
    {NetworkError}
        \cup {Http(s, b) : s \in okStatuses, b \in {NotJson} \cup {Json(d) : d \in bodies}}
        \cup {Http(s, b) : s \in errStatuses, b \in {NotJson, Json(ErrorBody)}}

\* GET /api/states/<entity>
StateBodies(ids, states) ==
    {[entity_id |-> e, state |-> s] : e \in ids, s \in states}
        \cup {[entity_id |-> e, state |-> s, attributes |-> a] :
                e \in ids, s \in states,
                a \in {[icon |-> "mdi:x"], [friendly_name |-> "Lamp"]}}

\* GET /api/config
ConfigBodies == {[location_name |-> "Home"], [version |-> "1"]}

\* POST /api/services/<group>/<action>: the entities the call affected
ServiceBodies(entries) == Seqs(entries, MaxResp)

-----------------------------------------------------------------------------
(* The gateway and its calls *)

InitGateway ==
    /\ url = ""
    /\ port = ""
    /\ token = ""
    /\ force = FALSE
    /\ inflight = <<>>
    /\ last = NoCall

InitApp ==
    /\ Available = FALSE
    /\ AddressText = gettext("unavailable")
    /\ settings \in loadSettings
    /\ Categories = <<>>
    /\ Entities = <<>>
    /\ tiles = <<>>
    /\ handled = [callback |-> "none", key |-> "undefined", renders |-> 0, threw |-> FALSE]
    /\ sent = <<>>

Init == InitGateway /\ InitApp /\ settings = defaultSettings /\ channel = Socket(FALSE)

GatewayIds == {SwitchLamp, ScriptFoo, AutomationNight, ButtonBell, ScriptsBar}
Actions == {"turn_on", "toggle"}
ServerStates == {"on", "off"}
Affected ==
    {[entity_id |-> SwitchLamp, state |-> "off"], [entity_id |-> CoverBlinds, state |-> "open"],
     [entity_id |-> ScriptFoo, state |-> "on"]}

Next ==
    \/ \E f \in {Undefined, <<FALSE>>} :
            setup(<<"http://ha.local">>, Undefined, <<"tok">>, f)
    \/ \E f \in {<<TRUE>>, <<FALSE>>} : changeForce(f)
    \/ \E entity \in GatewayIds : fetchEntity(entity)
    \/ fetchApiStatus
    \/ \E entity \in GatewayIds, state \in Actions : changeEntity(entity, state)
    \/ \E i \in 1..MaxInflight,
          response \in Responses({200, 201}, {500},
                                 StateBodies({SwitchLamp, ScriptFoo, ScriptsBar}, ServerStates)) :
            fetchEntityResume(i, response)
    \/ \E i \in 1..MaxInflight, response \in Responses({200, 201}, {500}, ConfigBodies) :
            fetchApiStatusResume(i, response)
    \/ \E i \in 1..MaxInflight,
          response \in Responses({200}, {500}, ServiceBodies(Affected)) :
            changeEntityResume(i, response)

Spec == Init /\ [][Next]_vars

-----------------------------------------------------------------------------
(* The configuration space, with one entity and one action *)

Urls == {Undefined, <<"">>}
Ports == {Undefined, <<"">>, <<"8124">>}
Tokens == {Undefined, <<"tok">>}
Forces == {Undefined, <<FALSE>>}

NextConfig ==
    \/ \E u \in Urls, p \in Ports, t \in Tokens, f \in Forces : setup(u, p, t, f)
    \/ \E u \in Urls : changeUrl(u)
    \/ \E p \in Ports : changePort(p)
    \/ \E t \in Tokens : changeToken(t)
    \/ \E f \in Forces : changeForce(f)
    \/ fetchEntity(SwitchLamp)
    \/ fetchApiStatus
    \/ changeEntity(SwitchLamp, "turn_on")
    \/ \E i \in 1..MaxInflight,
          response \in Responses({200}, {500}, StateBodies({SwitchLamp}, {"on"})) :
            fetchEntityResume(i, response)
    \/ \E i \in 1..MaxInflight, response \in Responses({200}, {500}, ConfigBodies) :
            fetchApiStatusResume(i, response)
    \/ \E i \in 1..MaxInflight,
          response \in Responses({200}, {500},
                                 {<<>>, <<[entity_id |-> SwitchLamp, state |-> "off"]>>}) :
            changeEntityResume(i, response)

SpecConfig == Init /\ [][NextConfig]_vars

-----------------------------------------------------------------------------
(* The device application and the events it receives *)

StoreIds == {LightA, LightB, SwitchC}

StoreEvents ==
    {[key |-> "clear"]}
        \cup {[key |-> "add", id |-> e, name |-> e, state |-> "on", type |-> split0(e)] :
                e \in StoreIds}
        \cup {[key |-> "change", id |-> e, state |-> "off"] : e \in StoreIds}
        \cup {[key |-> "api", value |-> "ok", name |-> "Home"],
              [key |-> "api", value |-> gettext("connection_error")],
              JSONstringify([key |-> "api", value |-> gettext("error") \o " 500"]),
              [key |-> "force", value |-> FALSE]}

InitStore == InitGateway /\ InitApp /\ channel = Socket(FALSE)

NextStore ==
    \/ \E data \in StoreEvents, reuse \in BOOLEAN : receive(data, reuse)
    \/ onopen

SpecStore == InitStore /\ [][NextStore]_vars

-----------------------------------------------------------------------------
(* The device application under the events of the entity list alone *)

ListEvents == {data \in StoreEvents : keyOf(data) \in {"clear", "add", "change"}}

NextList == \E data \in ListEvents, reuse \in BOOLEAN : receive(data, reuse)

SpecList == InitStore /\ [][NextList]_vars

-----------------------------------------------------------------------------
(* The gateway's health check with the device at the other end of the socket *)

InitLink == InitGateway /\ InitApp /\ channel = Socket(TRUE)

NextLink ==
    \/ \E f \in {Undefined, <<FALSE>>} :
            setup(<<"http://ha.local">>, Undefined, <<"tok">>, f)
    \/ fetchApiStatus
    \/ \E i \in 1..MaxInflight, response \in Responses({200, 201}, {500}, ConfigBodies) :
            fetchApiStatusResume(i, response)
    \/ \E reuse \in BOOLEAN : peerSocketDeliver(reuse)

SpecLink == InitLink /\ [][NextLink]_vars

-----------------------------------------------------------------------------
(* Properties of the gateway *)

\* the last call resumed from the fetch of op and has returned
Resumed(op) == last.op = op /\ "response" \in DOMAIN last

\* the changeEntity calls that issued a request, those suspended and the
\* one that resumed last: the id and action asked for and the action sent
IssuedChanges ==
    {[entity |-> inflight[i].args.entity, state |-> inflight[i].args.state,
      sent |-> inflight[i].request.url.state] :
        i \in {j \in 1..Len(inflight) : inflight[j].op = "changeEntity"}}
        \cup (IF Resumed("changeEntity")
              THEN {[entity |-> last.args.entity, state |-> last.args.state,
                     sent |-> last.requests[1].url.state]}
              ELSE {})

\* the last call got a 2xx response whose body parsed
Succeeded ==
    /\ last.response.kind = "http"
    /\ last.response.status \in 200..299
    /\ last.response.body.json

ExecutableDomains == {STR_script, STR_automation, STR_button}

\* C1 as stated: the action in the command url is "activate" for a script,
\* "trigger" for an automation, "press" for a button, and the requested
\* action for every other domain.
C1_ActivateOverride ==
    \A c \in IssuedChanges :
        c.sent = CASE split0(c.entity) = STR_script -> "activate"
                   [] split0(c.entity) = STR_automation -> "trigger"
                   [] split0(c.entity) = STR_button -> "press"
                   [] OTHER -> c.state

\* C1 amended: the action in the command url is "turn_on" for a script,
\* "trigger" for an automation, "press" for a button, whatever action was
\* requested, and the requested action for every other domain.
C1_ActionOverride ==
    \A c \in IssuedChanges :
        c.sent = CASE split0(c.entity) = STR_script -> "turn_on"
                   [] split0(c.entity) = STR_automation -> "trigger"
                   [] split0(c.entity) = STR_button -> "press"
                   [] OTHER -> c.state

\* a script asked to "toggle" was sent "turn_on"
C1_Witness ==
    /\ Resumed("changeEntity")
    /\ last.args = [entity |-> ScriptFoo, state |-> "toggle"]
    /\ last.requests[1].url.state = "turn_on"

\* C2: isExecutable is true of every id whose domain is script, automation
\* or button, and no changeEntity call sends a "change" message for such an
\* id, in force mode or in read-back mode, whatever the server answers.
C2_NoChangeForExecutables ==
    /\ \A id \in GatewayIds : split0(id) \in ExecutableDomains => isExecutable(id)
    /\ last.op = "changeEntity" =>
          \A k \in 1..Len(last.emitted) :
              ~(/\ last.emitted[k].key = "change"
                /\ \/ split0(last.emitted[k].id) \in ExecutableDomains
                   \/ split0(last.args.entity) \in ExecutableDomains)

\* a button was commanded in force mode, the server answered 200, and
\* nothing was sent
C2_Witness ==
    /\ Resumed("changeEntity")
    /\ last.args.entity = ButtonBell
    /\ Succeeded
    /\ last.cfg.force
    /\ last.emitted = <<>>

\* C5: a changeEntity call that gets a 2xx response it can read, with force
\* set and an id that is not executable, sends exactly one "change" message
\* whose state is the Forced-State entry of the action sent (on, off,
\* closed, open), or the action itself when there is no entry, whatever the
\* body holds.
C5_ForceMode ==
    (/\ Resumed("changeEntity")
     /\ Succeeded
     /\ last.cfg.force
     /\ ~isExecutable(last.args.entity))
        => last.emitted =
              <<[key |-> "change", id |-> last.args.entity,
                 state |-> CASE last.requests[1].url.state = "turn_on" -> "on"
                             [] last.requests[1].url.state = "turn_off" -> "off"
                             [] last.requests[1].url.state = "close_cover" -> "closed"
                             [] last.requests[1].url.state = "open_cover" -> "open"
                             [] OTHER -> last.requests[1].url.state]>>

\* the lamp was turned on in force mode; the server reported it off, and
\* the message says "on"
C5_Witness ==
    /\ Resumed("changeEntity")
    /\ last.args = [entity |-> SwitchLamp, state |-> "turn_on"]
    /\ Succeeded
    /\ last.cfg.force
    /\ last.response.body.data = <<[entity_id |-> SwitchLamp, state |-> "off"]>>
    /\ last.emitted = <<[key |-> "change", id |-> SwitchLamp, state |-> "on"]>>

\* the entries of a response list that name id, in order
EntriesOf(data, id) == SelectSeq(data, LAMBDA element : element.entity_id = id)

\* C6: a changeEntity call for an id that is not executable that gets a
\* successful response with force unset sends one "change" message, with
\* the state the server reports, for each entry of the response list whose
\* entity_id is the id, and nothing for the other entries: nothing at all
\* when no entry matches.
C6_ReadBackMode ==
    (/\ Resumed("changeEntity")
     /\ Succeeded
     /\ ~last.cfg.force
     /\ ~isExecutable(last.args.entity))
        => LET hits == EntriesOf(last.response.body.data, last.args.entity)
           IN  /\ Len(last.emitted) = Len(hits)
               /\ \A k \in 1..Len(hits) :
                     last.emitted[k] = [key |-> "change", id |-> last.args.entity,
                                        state |-> hits[k].state]

\* the lamp was commanded in read-back mode and the server listed a cover
\* and the lamp: one message, for the lamp
C6_Witness ==
    /\ Resumed("changeEntity")
    /\ last.args.entity = SwitchLamp
    /\ ~last.cfg.force
    /\ Succeeded
    /\ last.response.body.data = <<[entity_id |-> CoverBlinds, state |-> "open"],
                                   [entity_id |-> SwitchLamp, state |-> "off"]>>
    /\ last.emitted = <<[key |-> "change", id |-> SwitchLamp, state |-> "off"]>>

\* C7: a fetchApiStatus call that completes sends exactly one message, an
\* object with key "api": value "ok" and the server's location name on HTTP
\* 200, and otherwise an error text that is neither empty nor "ok".
C7_ApiMessage ==
    Resumed("fetchApiStatus") =>
        /\ Len(last.emitted) = 1
        /\ "key" \in DOMAIN last.emitted[1]
        /\ last.emitted[1].key = "api"
        /\ "value" \in DOMAIN last.emitted[1]
        /\ IF Succeeded /\ last.response.status = 200
           THEN /\ last.emitted[1].value = "ok"
                /\ "location_name" \in DOMAIN last.response.body.data =>
                      /\ "name" \in DOMAIN last.emitted[1]
                      /\ last.emitted[1].name = last.response.body.data.location_name
           ELSE last.emitted[1].value \notin {"ok", ""}

\* C9: a fetchEntity call that gets a successful response sends exactly one
\* "add" message: its id is the response's entity_id, its name the friendly
\* name when there is one and the id otherwise, its state "exe" exactly
\* when the domain of the id is script, automation or button and the state
\* the server reports otherwise.
C9_AddMessage ==
    (Resumed("fetchEntity") /\ Succeeded) =>
        LET data == last.response.body.data
        IN  /\ Len(last.emitted) = 1
            /\ last.emitted[1].key = "add"
            /\ last.emitted[1].id = data.entity_id
            /\ last.emitted[1].name =
                  IF "attributes" \in DOMAIN data
                        /\ "friendly_name" \in DOMAIN data.attributes
                  THEN data.attributes.friendly_name
                  ELSE data.entity_id
            /\ last.emitted[1].state =
                  IF split0(data.entity_id) \in ExecutableDomains
                  THEN "exe"
                  ELSE data.state

\* C10: a fetchEntity or changeEntity call whose fetch ends in no
\* connection, a status outside 2xx or a body that does not parse sends no
\* message, has issued one request and no more, and leaves the
\* configuration as it found it on resuming.
C10_FailureIsSilent ==
    ((Resumed("fetchEntity") \/ Resumed("changeEntity")) /\ ~Succeeded) =>
        /\ last.emitted = <<>>
        /\ Len(last.requests) = 1
        /\ last.cfg = Config

\* a command was answered with status 500 and nothing was sent
C10_Witness ==
    /\ Resumed("changeEntity")
    /\ last.response.kind = "http"
    /\ last.response.status = 500
    /\ last.emitted = <<>>
    /\ Len(last.requests) = 1

-----------------------------------------------------------------------------
(* Properties of the configuration *)

RemoteCalls == {"fetchEntity", "fetchApiStatus", "changeEntity"}

\* a configuration with url, port or token empty
HasEmptyField(cfg) == cfg.url = "" \/ cfg.port = "" \/ cfg.token = ""

\* C3: while url, port or token is empty isValid is false, and a
\* fetchEntity, fetchApiStatus or changeEntity call made then issues no
\* request and sends no message: no call is suspended at a request it
\* issued under such a configuration, and the call returns at once.
C3_InvalidIsNoOp ==
    /\ HasEmptyField(Config) => ~isValid
    /\ \A i \in 1..Len(inflight) : ~HasEmptyField(inflight[i].cfg)
    /\ (last.op \in RemoteCalls /\ "response" \notin DOMAIN last) =>
          /\ HasEmptyField(last.cfg)
          /\ last.requests = <<>>
          /\ last.emitted = <<>>

\* changeEntity was called after setup with every argument undefined: the
\* token is empty, and the call returned without a request or a message
C3_Witness ==
    /\ last.op = "changeEntity"
    /\ "response" \notin DOMAIN last
    /\ last.cfg = [url |-> "127.0.0.1", port |-> "8123", token |-> "", force |-> TRUE]
    /\ last.requests = <<>>
    /\ last.emitted = <<>>
    /\ inflight = <<>>

\* C4: setup with four undefined arguments leaves url "127.0.0.1", port
\* "8123", token "" and force true, whatever the configuration was; each
\* setter called with undefined resets its own field to that default and
\* leaves the other three as they were.
C4_UndefinedResets ==
    /\ (/\ last.op = "setup"
        /\ last.args = [url |-> Undefined, port |-> Undefined,
                        token |-> Undefined, force |-> Undefined])
          => Config = [url |-> "127.0.0.1", port |-> "8123", token |-> "", force |-> TRUE]
    /\ (last.op = "changeUrl" /\ last.args.url = Undefined)
          => Config = [last.cfg EXCEPT !.url = "127.0.0.1"]
    /\ (last.op = "changePort" /\ last.args.port = Undefined)
          => Config = [last.cfg EXCEPT !.port = "8123"]
    /\ (last.op = "changeToken" /\ last.args.token = Undefined)
          => Config = [last.cfg EXCEPT !.token = ""]
    /\ (last.op = "changeForce" /\ last.args.force = Undefined)
          => Config = [last.cfg EXCEPT !.force = TRUE]

\* changeForce(undefined) was called on a configuration that differed from
\* the defaults in all four fields
C4_Witness ==
    /\ last.op = "changeForce"
    /\ last.args.force = Undefined
    /\ last.cfg = [url |-> "", port |-> "8124", token |-> "tok", force |-> FALSE]
    /\ Config = [url |-> "", port |-> "8124", token |-> "tok", force |-> TRUE]

-----------------------------------------------------------------------------
(* Properties of the device application *)

\* row i is the first row of its category in data
FirstOfCategory(data, i) ==
    \A j \in 1..(i - 1) : split0(data[j].id) # split0(data[i].id)

\* C8: after every render of the list, the one of an add event and every
\* one of a change event, the category label is on the first row of each
\* category and on no later row of that category.
C8_LabelOnFirstRowOfCategory ==
    handled.renders > 0 =>
        /\ Len(tiles) = Len(Entities)
        /\ \A i \in 1..Len(Entities) :
              tiles[i] = IF FirstOfCategory(Entities, i)
                         THEN split0(Entities[i].id)
                         ELSE Blank

-----------------------------------------------------------------------------
(* Properties of a new gateway *)

\* the gateway has been constructed and nothing has been called on it
Created == last = NoCall /\ inflight = <<>>

\* C11: the configuration of a newly created gateway, before any setter or
\* setup call, holds the defaults: url "127.0.0.1", port "8123", token
\* empty, force true.
C11_CreatedWithDefaults ==
    Created => Config = [url |-> "127.0.0.1", port |-> "8123", token |-> "", force |-> TRUE]

\* C13: no two records of Entities have the same id: an add event for an
\* id that is in the list does not create a second record.
C13_UniqueIds ==
    \A i, j \in 1..Len(Entities) : Entities[i].id = Entities[j].id => i = j

\* the categories of the ids an add event may carry
StoreCategories == {split0(id) : id \in StoreIds}

\* C14: Categories holds each category at most once and nothing but
\* categories, so it never has more entries than there are distinct domains
\* among the entities added.
C14_CategoriesOnce ==
    /\ \A i, j \in 1..Len(Categories) : Categories[i] = Categories[j] => i = j
    /\ \A i \in 1..Len(Categories) :
          \E category \in StoreCategories : Categories[i] = categoryName(category)
    /\ Len(Categories) <= Cardinality(StoreCategories)

ChangeEvents == {data \in StoreEvents : keyOf(data) = "change"}

\* C15: a change event sets the state of the records whose id is the
\* event's id and nothing else: the other records, the order and length of
\* Entities and the settings with the persisted list stay as they are and
\* no message is sent; when no record has the id the store stays as it is
\* and the list is not rendered.
C15_ChangeSetsStateOnly ==
    [][(handled'.callback = "onmessage" /\ handled'.key = "change") =>
          \E data \in ChangeEvents :
              /\ Len(Entities') = Len(Entities)
              /\ \A i \in 1..Len(Entities) :
                    Entities'[i] = IF Entities[i].id = data.id
                                   THEN [Entities[i] EXCEPT !.state = data.state]
                                   ELSE Entities[i]
              /\ settings' = settings
              /\ sent' = <<>>
              /\ (\A i \in 1..Len(Entities) : Entities[i].id # data.id) =>
                    /\ handled'.renders = 0
                    /\ UNCHANGED <<Available, AddressText, settings, Categories,
                                   Entities, tiles>>]_vars

\* of two lights and a switch that were on, the second light was changed
\* to off with one render
C15_Witness ==
    /\ handled.callback = "onmessage"
    /\ handled.key = "change"
    /\ handled.renders = 1
    /\ Entities = <<[id |-> LightA, name |-> LightA, state |-> "on"],
                    [id |-> LightB, name |-> LightB, state |-> "off"],
                    [id |-> SwitchC, name |-> SwitchC, state |-> "on"]>>

\* the persisted list names the records of Entities, one for one
Mirrors ==
    /\ "entities" \in DOMAIN settings
    /\ Len(settings.entities) = Len(Entities)
    /\ \A i \in 1..Len(Entities) : settings.entities[i].name = Entities[i].id

\* C16: a clear event leaves Entities and the persisted list empty, and
\* once the persisted list mirrors Entities, as it does after a clear, it
\* mirrors it after every further event.
C16_PersistedMirrorsEntities ==
    [][/\ (handled'.callback = "onmessage" /\ handled'.key = "clear") =>
              /\ Entities' = <<>>
              /\ "entities" \in DOMAIN settings'
              /\ settings'.entities = <<>>
       /\ Mirrors => Mirrors']_vars

\* the fallback settings, which have no persisted list until a clear makes
\* one: after the clear a light and a switch were added and the light changed
C16_Witness ==
    /\ settings.url = "localhost"
    /\ handled.key = "change"
    /\ Mirrors
    /\ Entities = <<[id |-> LightA, name |-> LightA, state |-> "off"],
                    [id |-> SwitchC, name |-> SwitchC, state |-> "on"]>>

\* the events fetchEntity and changeEntity calls result in
EntityEvents == {data \in StoreEvents : keyOf(data) \in {"add", "change"}}

\* Entities after the delivery of an add or a change event
delivered(entities, data) ==
    IF keyOf(data) = "add" THEN pushEntity(entities, data)
    ELSE changeEntities(entities, data)

\* the (id, state) records of a list
RecordsOf(entities) ==
    {[id |-> entities[i].id, state |-> entities[i].state] : i \in 1..Len(entities)}

\* C17: the (id, state) records Entities ends with do not depend on the
\* order in which the add and change events of concurrent requests are
\* delivered: from every state of the store, two such events leave the
\* same records in either order.
C17_OrderOfDeliveryIsImmaterial ==
    \A first, second \in EntityEvents :
        RecordsOf(delivered(delivered(Entities, first), second))
            = RecordsOf(delivered(delivered(Entities, second), first))

\* the position of the message with key k among the messages sent
Positions(k) == {i \in 1..Len(sent) : sent[i].key = k}

\* C18: when the socket opens the app sends url, port, token and force
\* once each and the entities request once, and each of the four values
\* before the entities request.
C18_ConfigurationBeforeEntities ==
    handled.callback = "onopen" =>
        /\ \A k \in {"url", "port", "token", "force", "entities"} :
              Cardinality(Positions(k)) = 1
        /\ \A k \in {"url", "port", "token", "force"} :
              \A i \in Positions(k), j \in Positions("entities") : i < j

\* C19: an add event is handled without an error in every state, the one
\* with the fallback settings of loadSettings included: the record is
\* appended to Entities and to the persisted list and the list is rendered.
C19_AddNeverThrows ==
    (handled.callback = "onmessage" /\ handled.key = "add") =>
        /\ ~handled.threw
        /\ handled.renders = 1
        /\ Entities # <<>>
        /\ "entities" \in DOMAIN settings
        /\ settings.entities # <<>>
        /\ settings.entities[Len(settings.entities)].name = Entities[Len(Entities)].id

-----------------------------------------------------------------------------
(* Properties of calls that overlap configuration changes *)

\* request carries the address and the token of the configuration cfg
BuiltFrom(request, cfg) ==
    /\ request.url.address = cfg.url \o ":" \o cfg.port
    /\ request.headers.Authorization = "Bearer " \o cfg.token

\* the state force mode reports for an action
ForcedStateOf(action) ==
    CASE action = "turn_on" -> "on"
      [] action = "turn_off" -> "off"
      [] action = "close_cover" -> "closed"
      [] action = "open_cover" -> "open"
      [] OTHER -> action

\* C20: the request of a changeEntity call carries the url, port and token
\* held when the call was made, whatever the setters do before the response
\* arrives, and the messages it sends on a successful response follow the
\* force flag held when the response arrives: the Forced-State message when
\* it is set, the read-back messages when it is not.
C20_LastWriteWins ==
    /\ \A i \in 1..Len(inflight) :
          inflight[i].op = "changeEntity" => BuiltFrom(inflight[i].request, inflight[i].cfg)
    /\ Resumed("changeEntity") =>
          /\ Len(last.requests) = 1
          /\ BuiltFrom(last.requests[1], last.issued)
          /\ (Succeeded /\ ~isExecutable(last.args.entity)) =>
                IF last.cfg.force
                THEN /\ Len(last.emitted) = 1
                     /\ last.emitted[1].key = "change"
                     /\ last.emitted[1].id = last.args.entity
                     /\ last.emitted[1].state = ForcedStateOf(last.requests[1].url.state)
                ELSE LET hits == EntriesOf(last.response.body.data, last.args.entity)
                     IN  last.emitted = [k \in 1..Len(hits) |->
                                            [key |-> "change", id |-> last.args.entity,
                                             state |-> hits[k].state]]

\* a command was issued in force mode with port 8124; before the response
\* arrived force was unset and the port reset: the request went to port
\* 8124 and the message is the read-back one
C20_Witness ==
    /\ Resumed("changeEntity")
    /\ Succeeded
    /\ last.issued.force
    /\ ~last.cfg.force
    /\ last.issued.port = "8124"
    /\ last.cfg.port = "8123"
    /\ last.requests[1].url.address = last.issued.url \o ":8124"
    /\ last.response.body.data = <<[entity_id |-> SwitchLamp, state |-> "off"]>>
    /\ last.emitted = <<[key |-> "change", id |-> SwitchLamp, state |-> "off"]>>

-----------------------------------------------------------------------------
(* Properties of the health check, end to end *)

\* the texts the gateway reports a failed health check with
ErrorTexts(response) ==
    {gettext("connection_error")}
        \cup (IF response.kind = "http"
              THEN {gettext("error") \o " " \o ToString(response.status)}
              ELSE {})

\* C12: once the message of a completed fetchApiStatus has been delivered
\* to the device, Available is true when the health check got HTTP 200,
\* with the location name as address text, and false when it got another
\* status or no connection, with an error text as address text: a failed
\* health check does not leave a true flag in place.  (Of a 200 whose body
\* cannot be read, which the gateway reports as a failure, nothing is
\* required here.)
C12_AvailableFollowsHealthCheck ==
    channel.delivered.from.op = "fetchApiStatus" =>
        LET response == channel.delivered.from.response
        IN  IF response.kind = "http" /\ response.status = 200
            THEN response.body.json =>
                    /\ Available
                    /\ "location_name" \in DOMAIN response.body.data
                          => AddressText = response.body.data.location_name
            ELSE /\ ~Available
                 /\ AddressText \in ErrorTexts(response)

====
